---- MODULE Spec2Model ----
(***************************************************************************)
(* A model of maxgrep (src/src/lib.rs, src/src/main.rs): the argument      *)
(* parser Params::new, the line search `search`, the printer `run` and the *)
(* process driver `main`.                                                  *)
(*                                                                         *)
(* A Rust String / &str is a sequence of one-character strings, so that    *)
(* substring containment, lowercasing and line splitting are computed on   *)
(* the characters.  The fixed text of a format string (the literal parts   *)
(* of the {:?} renderings and of the diagnostics) is kept as one           *)
(* multi-character fragment per literal part.                              *)
(***************************************************************************)
EXTENDS Integers, Sequences, FiniteSets, TLC

VARIABLES
    pc,            \* position of the invocation
    args,          \* main's `args` vector (moved into Params::new when it is called)
    params,        \* the Result of Params::new, NotCalled before the call
    file,          \* the Result of fs::read_to_string, NotCalled before the call
    results,       \* run's `results` HashMap, NotCalled before search returns
    sort_results,  \* run's `sort_results` vector
    idx,           \* number of iterations of run's print loop completed
    stdout,        \* everything written to standard output
    stderr,        \* everything written to standard error
    exit_code      \* <<>> while the process runs, <<c>> once it has exited with c

vars == <<pc, args, params, file, results, sort_results, idx, stdout, stderr, exit_code>>

----------------------------------------------------------------------------
(* Bounds of the model *)

\* Params::new alone: the longest argument vector.
MaxArgs == 5

\* search alone: the longest file text and the longest query.
MaxTextLen == 4

MaxQueryLen == 2

\* The whole invocation: the longest argument vector (after the program name)
\* and the longest file text.
MaxMainArgs == 3

MaxMainTextLen == 3

----------------------------------------------------------------------------
(* Values *)

NotCalled == [tag |-> "None"]

Ok(v) == [tag |-> "Ok", val |-> v]

Err(e) == [tag |-> "Err", err |-> e]

Some(v) == [tag |-> "Some", val |-> v]

FlagN == <<"/", "n">>

FlagV == <<"/", "v">>

FlagC == <<"/", "c">>

\* The command-line tokens the model draws argument vectors from: the three
\* switches, an unrecognised switch, a lowercase and an uppercase word, and
\* the empty string.
Tokens == {FlagN, FlagV, FlagC, <<"/", "x">>, <<"a">>, <<"A">>, <<>>}

ProgName == <<"m">>

\* The characters file contents are made of.
Alphabet == {"a", "A", "b", "\n", "\r"}

SeqsUpTo(S, n) == UNION {[1..k -> S] : k \in 0..n}

ArgVectors == SeqsUpTo(Tokens, MaxArgs)

MainArgVectors == SeqsUpTo(Tokens, MaxMainArgs)

Texts == SeqsUpTo(Alphabet, MaxTextLen)

MainTexts == SeqsUpTo(Alphabet, MaxMainTextLen)

\* The characters queries are made of when search is checked alone.
QueryAlphabet == {"a", "A"}

Queries == SeqsUpTo(QueryAlphabet, MaxQueryLen)

\* The Params values search is checked on; search does not read filename.
SearchParams ==
    [query : Queries, filename : {<<"f">>},
     case_insensitive : BOOLEAN, print_line_no : BOOLEAN, print_nonmatch : BOOLEAN]

----------------------------------------------------------------------------
(* Params::new *)

\* args.iter().position(|x| *x == arg): the first index holding arg, 0 for None.
Position(v, arg) ==
    IF \E i \in 1..Len(v) : v[i] = arg
    THEN CHOOSE i \in 1..Len(v) : v[i] = arg /\ \A j \in 1..(i - 1) : v[j] # arg
    ELSE 0

\* Vec::remove(i): the vector without its i-th element.
Remove(v, i) == SubSeq(v, 1, i - 1) \o SubSeq(v, i + 1, Len(v))

\* The closure args_parse: whether the switch was found, and the vector after
\* its first occurrence was removed.
args_parse(v, arg) ==
    LET i == Position(v, arg)
    IN  IF i # 0 THEN [found |-> TRUE, rest |-> Remove(v, i)]
                 ELSE [found |-> FALSE, rest |-> v]

\* The count check as the doc comment words it ("fewer than two elements").
ArgCountAtLeastTwo(v) == Len(v) >= 2

\* The check of args.len() after the switches were removed.
ArgCountOk(v) == Len(v) = 2

\* The two positionals taken in the wrong order.
MakeParamsSwapped(v, n, nm, c) ==
    [query |-> v[2], filename |-> v[1],
     case_insensitive |-> c, print_line_no |-> n, print_nonmatch |-> nm]

MakeParams(v, n, nm, c) ==
    [query |-> v[1], filename |-> v[2],
     case_insensitive |-> c, print_line_no |-> n, print_nonmatch |-> nm]

ParamsNew(v) ==
    LET n  == args_parse(v, FlagN)
        nm == args_parse(n.rest, FlagV)
        c  == args_parse(nm.rest, FlagC)
    IN  IF ~ArgCountOk(c.rest)
        THEN Err(<<"Invalid number of arguments.">>)
        ELSE Ok(MakeParams(c.rest, n.found, nm.found, c.found))

----------------------------------------------------------------------------
(* search *)

UpperLetters ==
    <<"A", "B", "C", "D", "E", "F", "G", "H", "I", "J", "K", "L", "M",
      "N", "O", "P", "Q", "R", "S", "T", "U", "V", "W", "X", "Y", "Z">>

LowerLetters ==
    <<"a", "b", "c", "d", "e", "f", "g", "h", "i", "j", "k", "l", "m",
      "n", "o", "p", "q", "r", "s", "t", "u", "v", "w", "x", "y", "z">>

\* char::to_lowercase on the ASCII range: an uppercase letter becomes its
\* lowercase letter, every other character is itself.
LowerChar(c) ==
    IF \E i \in 1..Len(UpperLetters) : UpperLetters[i] = c
    THEN LowerLetters[CHOOSE i \in 1..Len(UpperLetters) : UpperLetters[i] = c]
    ELSE c

\* str::to_lowercase
ToLowercase(s) == [i \in 1..Len(s) |-> LowerChar(s[i])]

\* str::contains(&String): q occurs in s as a contiguous substring.
Contains(s, q) ==
    \E i \in 0..(Len(s) - Len(q)) : SubSeq(s, i + 1, i + Len(q)) = q

\* The first index of a line feed in t, 0 when there is none.
FirstNewline(t) ==
    IF \E i \in 1..Len(t) : t[i] = "\n"
    THEN CHOOSE i \in 1..Len(t) : t[i] = "\n" /\ \A j \in 1..(i - 1) : t[j] # "\n"
    ELSE 0

RECURSIVE SplitInclusive(_)
\* str::split_inclusive('\n'): the pieces of t, each ending with its line feed
\* except possibly the last; no piece for the empty rest.
SplitInclusive(t) ==
    IF t = <<>> THEN <<>>
    ELSE LET i == FirstNewline(t)
         IN  IF i = 0 THEN <<t>>
             ELSE <<SubSeq(t, 1, i)>> \o SplitInclusive(SubSeq(t, i + 1, Len(t)))

\* What str::lines does to a piece: a final "\n" is stripped, and then a "\r"
\* before it; a piece with no "\n" (the last one) is left as it is.
StripLineEnding(l) ==
    IF Len(l) > 0 /\ l[Len(l)] = "\n"
    THEN LET m == SubSeq(l, 1, Len(l) - 1)
         IN  IF Len(m) > 0 /\ m[Len(m)] = "\r" THEN SubSeq(m, 1, Len(m) - 1) ELSE m
    ELSE l

\* str::lines
Lines(t) ==
    LET pieces == SplitInclusive(t)
    IN  [i \in 1..Len(pieces) |-> StripLineEnding(pieces[i])]

\* HashMap::new and HashMap::insert: a map is a function on its key set.
EmptyMap == <<>>

Insert(m, k, v) == (k :> v) @@ m

\* The lowercased copy stored in place of the line.
StoredLowered(line, line_) == line_

\* The text search stores for a line: the slice `line` of the file, not the
\* possibly lowercased copy `line_`.
StoredLine(line, line_) == line

\* The match statement without its arm for print_nonmatch.
MatchArmNoInvert(p, contained, i, line, line_, acc) ==
    IF contained THEN Insert(acc, i + 1, StoredLine(line, line_)) ELSE acc

\* The match statement keyed by the enumerate index, not by index + 1.
MatchArmZeroBased(p, contained, i, line, line_, acc) ==
    IF contained /\ ~p.print_nonmatch THEN Insert(acc, i, StoredLine(line, line_))
    ELSE IF ~contained /\ p.print_nonmatch THEN Insert(acc, i, StoredLine(line, line_))
    ELSE acc

\* The match statement of search's loop body.
MatchArm(p, contained, i, line, line_, acc) ==
    IF contained /\ ~p.print_nonmatch THEN Insert(acc, i + 1, StoredLine(line, line_))
    ELSE IF ~contained /\ p.print_nonmatch THEN Insert(acc, i + 1, StoredLine(line, line_))
    ELSE acc

\* The copy of the line that is compared against the query.
ComparedLine(p, line) == IF p.case_insensitive THEN ToLowercase(line) ELSE line

\* The query that is compared.
ComparedQuery(p) == IF p.case_insensitive THEN ToLowercase(p.query) ELSE p.query

RECURSIVE SearchLoop(_, _, _, _, _)
\* search's for loop from enumerate index i on, acc the map built so far.
SearchLoop(p, query, lines, i, acc) ==
    IF i >= Len(lines) THEN acc
    ELSE LET line  == lines[i + 1]
             line_ == ComparedLine(p, line)
         IN  SearchLoop(p, query, lines, i + 1,
                        MatchArm(p, Contains(line_, query), i, line, line_, acc))

search(p, text) == SearchLoop(p, ComparedQuery(p), Lines(text), 0, EmptyMap)

----------------------------------------------------------------------------
(* run and main: helpers *)

\* The orders in which HashMap::keys may yield the keys of m.
KeyOrders(m) ==
    LET K == DOMAIN m
    IN  {s \in [1..Cardinality(K) -> K] : \A i, j \in 1..Cardinality(K) : s[i] = s[j] => i = j}

RECURSIVE InsertSorted(_, _)
InsertSorted(s, x) ==
    IF s = <<>> THEN <<x>>
    ELSE IF x < Head(s) THEN <<x>> \o s
    ELSE <<Head(s)>> \o InsertSorted(Tail(s), x)

\* No sort: the keys stay in the order the map yielded them.
Unsorted(s) == s

RECURSIVE Sort(_)
\* Vec::sort on line numbers.
Sort(s) == IF s = <<>> THEN <<>> ELSE InsertSorted(Sort(Tail(s)), Head(s))

Digits == <<"0", "1", "2", "3", "4", "5", "6", "7", "8", "9">>

RECURSIVE Decimal(_)
\* Display of a usize.
Decimal(n) ==
    IF n < 10 THEN <<Digits[n + 1]>>
    ELSE Decimal(n \div 10) \o <<Digits[(n % 10) + 1]>>

\* Debug of a char inside a string.
EscapeDebug(c) ==
    IF c = "\n" THEN <<"\\", "n">>
    ELSE IF c = "\r" THEN <<"\\", "r">>
    ELSE IF c = "\"" THEN <<"\\", "\"">>
    ELSE IF c = "\\" THEN <<"\\", "\\">>
    ELSE <<c>>

RECURSIVE EscapeAll(_)
EscapeAll(s) == IF s = <<>> THEN <<>> ELSE EscapeDebug(Head(s)) \o EscapeAll(Tail(s))

\* {:?} of a String
DebugStr(s) == <<"\"">> \o EscapeAll(s) \o <<"\"">>

DebugBool(b) == IF b THEN <<"true">> ELSE <<"false">>

RECURSIVE DebugItems(_)
DebugItems(v) ==
    IF v = <<>> THEN <<>>
    ELSE IF Len(v) = 1 THEN DebugStr(v[1])
    ELSE DebugStr(v[1]) \o <<", ">> \o DebugItems(Tail(v))

\* {:?} of a Vec<String>
DebugVec(v) == <<"[">> \o DebugItems(v) \o <<"]">>

\* {:?} of a Params (derived Debug, fields in declaration order)
DebugParams(p) ==
    <<"Params { query: ">> \o DebugStr(p.query)
    \o <<", filename: ">> \o DebugStr(p.filename)
    \o <<", case_insensitive: ">> \o DebugBool(p.case_insensitive)
    \o <<", print_line_no: ">> \o DebugBool(p.print_line_no)
    \o <<", print_nonmatch: ">> \o DebugBool(p.print_nonmatch)
    \o <<" }">>

\* What one iteration of run's print loop writes for line number k.
PrintedLine(p, m, k) ==
    (IF p.print_line_no THEN Decimal(k) \o <<":", " ">> ELSE <<>>) \o m[k] \o <<"\n">>

\* The io::Error values fs::read_to_string can return, by their Display text.
IoErrors ==
    {<<"No such file or directory (os error 2)">>,
     <<"Permission denied (os error 13)">>,
     <<"stream did not contain valid UTF-8">>}

\* The outcomes of fs::read_to_string(name): the file system is outside the
\* program, so any text or any error; the empty path names no file.
ReadOutcomes(name) ==
    {Err(e) : e \in IoErrors} \cup (IF name = <<>> THEN {} ELSE {Ok(t) : t \in MainTexts})

\* The status of a process whose main returns.
ExitSuccess == 0

\* An error path that exits with the success status.
ExitFailureAsSuccess == ExitSuccess

\* The status process::exit is called with on an error.
ExitFailure == 1

----------------------------------------------------------------------------
(* The invocation: main and run, step by step *)

Init ==
    /\ pc = "Start"
    /\ args \in {<<ProgName>> \o v : v \in MainArgVectors}
    /\ params = NotCalled
    /\ file = NotCalled
    /\ results = NotCalled
    /\ sort_results = <<>>
    /\ idx = 0
    /\ stdout = <<>>
    /\ stderr = <<>>
    /\ exit_code = <<>>

\* main, up to the call of run: the program name is removed, the vector is
\* printed, Params::new consumes it; on Err the diagnostic is written and
\* the process exits, on Ok the parameters are printed.
MainParse ==
    /\ pc = "Start"
    /\ LET a == Tail(args)
           r == ParamsNew(a)
       IN  /\ params' = r
           /\ args' = <<>>
           /\ IF r.tag = "Err"
              THEN /\ stdout' = stdout \o DebugVec(a) \o <<"\n">>
                   /\ stderr' = stderr \o <<"Error occured: ">> \o r.err \o <<"\n">>
                   /\ exit_code' = <<ExitFailure>>
                   /\ pc' = "Error"
              ELSE /\ stdout' = stdout \o DebugVec(a) \o <<"\n">>
                                       \o DebugParams(r.val) \o <<"\n">>
                   /\ UNCHANGED <<stderr, exit_code>>
                   /\ pc' = "Parsed"
    /\ UNCHANGED <<file, results, sort_results, idx>>

\* The read whose error is reported without run returning: the diagnostic is
\* written and run goes on with an empty text.
ReadFileContinues ==
    /\ pc = "Parsed"
    /\ \E o \in ReadOutcomes(params.val.filename) :
          IF o.tag = "Err"
          THEN /\ file' = [tag |-> "Err", err |-> o.err, val |-> <<>>]
               /\ stderr' = stderr \o o.err \o <<"\n">>
          ELSE /\ file' = o
               /\ UNCHANGED stderr
    /\ pc' = "Read"
    /\ UNCHANGED <<args, params, results, sort_results, idx, stdout, exit_code>>

\* run's first statement: the file is read; on Err run returns it and main
\* writes it to the error stream and exits.
ReadFile ==
    /\ pc = "Parsed"
    /\ \E o \in ReadOutcomes(params.val.filename) :
          /\ file' = o
          /\ IF o.tag = "Err"
             THEN /\ stderr' = stderr \o o.err \o <<"\n">>
                  /\ exit_code' = <<ExitFailure>>
                  /\ pc' = "Error"
             ELSE /\ UNCHANGED <<stderr, exit_code>>
                  /\ pc' = "Read"
    /\ UNCHANGED <<args, params, results, sort_results, idx, stdout>>

\* run: search is called, the keys of its map are collected in whatever order
\* the map yields them, and sorted.
Search ==
    /\ pc = "Read"
    /\ LET m == search(params.val, file.val)
       IN  /\ results' = Some(m)
           /\ \E order \in KeyOrders(m) : sort_results' = Sort(order)
    /\ pc' = "Searched"
    /\ UNCHANGED <<args, params, file, idx, stdout, stderr, exit_code>>

\* One iteration of run's print loop.
PrintLine ==
    /\ pc = "Searched"
    /\ idx < Len(sort_results)
    /\ stdout' = stdout \o PrintedLine(params.val, results.val, sort_results[idx + 1])
    /\ idx' = idx + 1
    /\ UNCHANGED <<pc, args, params, file, results, sort_results, stderr, exit_code>>

\* The print loop is exhausted and run returns Ok(()).
PrintDone ==
    /\ pc = "Searched"
    /\ idx = Len(sort_results)
    /\ pc' = "Printed"
    /\ UNCHANGED <<args, params, file, results, sort_results, idx, stdout, stderr, exit_code>>

\* main returns.
MainReturn ==
    /\ pc = "Printed"
    /\ exit_code' = <<ExitSuccess>>
    /\ pc' = "Done"
    /\ UNCHANGED <<args, params, file, results, sort_results, idx, stdout, stderr>>

Next == MainParse \/ ReadFile \/ Search \/ PrintLine \/ PrintDone \/ MainReturn

Spec == Init /\ [][Next]_vars

----------------------------------------------------------------------------
(* Params::new alone, on every argument vector of the bounds *)

InitParse ==
    /\ pc = "new"
    /\ args \in ArgVectors
    /\ params = NotCalled
    /\ file = NotCalled
    /\ results = NotCalled
    /\ sort_results = <<>>
    /\ idx = 0
    /\ stdout = <<>>
    /\ stderr = <<>>
    /\ exit_code = <<>>

\* A call Params::new(args); args keeps the vector that was passed.
NewCall ==
    /\ pc = "new"
    /\ params' = ParamsNew(args)
    /\ pc' = "returned"
    /\ UNCHANGED <<args, file, results, sort_results, idx, stdout, stderr, exit_code>>

NextParse == NewCall

SpecParse == InitParse /\ [][NextParse]_vars

----------------------------------------------------------------------------
(* search alone, on every configuration and file text of the bounds *)

InitSearch ==
    /\ pc = "search"
    /\ args = <<>>
    /\ params \in {Ok(p) : p \in SearchParams}
    /\ file \in {Ok(t) : t \in Texts}
    /\ results = NotCalled
    /\ sort_results = <<>>
    /\ idx = 0
    /\ stdout = <<>>
    /\ stderr = <<>>
    /\ exit_code = <<>>

\* A call search(&params, &file).
SearchCall ==
    /\ pc = "search"
    /\ results' = Some(search(params.val, file.val))
    /\ pc' = "Searched"
    /\ UNCHANGED <<args, params, file, sort_results, idx, stdout, stderr, exit_code>>

NextSearch == SearchCall

SpecSearch == InitSearch /\ [][NextSearch]_vars

----------------------------------------------------------------------------
(* Properties of Params::new, checked under SpecParse *)

IsFlag(t) == t \in {FlagN, FlagV, FlagC}

Count(v, t) == Cardinality({i \in 1..Len(v) : v[i] = t})

NonFlags(v) == SelectSeq(v, LAMBDA t : ~IsFlag(t))

\* Exactly two tokens that are no switch, and each switch at most once.
TwoPositionalsAndFlags(v) ==
    /\ Len(NonFlags(v)) = 2
    /\ \A f \in {FlagN, FlagV, FlagC} : Count(v, f) <= 1

KeptIndices(v, t) ==
    {i \in 1..Len(v) : ~(v[i] = t /\ \A j \in 1..(i - 1) : v[j] # t)}

\* v without the first occurrence of t.
WithoutFirst(v, t) ==
    LET keep == KeptIndices(v, t)
        nth(k) == CHOOSE i \in keep : Cardinality({j \in keep : j < i}) = k - 1
    IN  [k \in 1..Cardinality(keep) |-> v[nth(k)]]

Remaining(v) == WithoutFirst(WithoutFirst(WithoutFirst(v, FlagN), FlagV), FlagC)

IsInvalidSwitch(t) == Len(t) > 0 /\ t[1] = "/" /\ ~IsFlag(t)

\* C3: Params::new returns an error whenever the vector holds a token that
\* starts with "/" and is none of /n, /v, /c.
C3_InvalidSwitchRejected ==
    (pc = "returned" /\ \E i \in 1..Len(args) : IsInvalidSwitch(args[i])) =>
        params.tag = "Err"

----------------------------------------------------------------------------
(* Properties of search, checked under SpecSearch *)

\* Whether line i of the text contains the query, both lowercased when the
\* comparison is case-insensitive.
LineHasQuery(p, text, i) ==
    IF p.case_insensitive
    THEN Contains(ToLowercase(Lines(text)[i]), ToLowercase(p.query))
    ELSE Contains(Lines(text)[i], p.query)

\* C4: the key set of search's map is exactly the set of 1-based line
\* numbers whose line contains the effective query when print_nonmatch is
\* off, and whose line does not contain it when print_nonmatch is on.
C4_KeySet ==
    pc = "Searched" =>
        DOMAIN results.val =
            {i \in 1..Len(Lines(file.val)) :
                LineHasQuery(params.val, file.val, i) # params.val.print_nonmatch}

\* Three lines, the middle one alone selected by the inverted search.
C4_Witness ==
    /\ pc = "Searched"
    /\ params.val.print_nonmatch
    /\ params.val.query # <<>>
    /\ Len(Lines(file.val)) = 3
    /\ DOMAIN results.val = {2}

\* C5: with case_insensitive the lowercased line is compared against the
\* lowercased query, without it the line and the query are compared as they
\* are, and in every mode the stored value is the original text of the line.
C5_CaseFolding ==
    pc = "Searched" =>
        LET p == params.val
            L == Lines(file.val)
        IN  /\ \A k \in DOMAIN results.val : k \in 1..Len(L) /\ results.val[k] = L[k]
            /\ p.case_insensitive =>
                  \A i \in 1..Len(L) :
                      i \in DOMAIN results.val
                          <=> (Contains(ToLowercase(L[i]), ToLowercase(p.query))
                                  # p.print_nonmatch)
            /\ (~p.case_insensitive /\ ~p.print_nonmatch) =>
                  \A k \in DOMAIN results.val : Contains(results.val[k], p.query)

\* A query with an uppercase letter matches, by folding alone, a line that
\* is stored with its own uppercase letter.
C5_Witness ==
    /\ pc = "Searched"
    /\ params.val.case_insensitive
    /\ ~params.val.print_nonmatch
    /\ params.val.query # ToLowercase(params.val.query)
    /\ \E k \in DOMAIN results.val :
          /\ ~Contains(results.val[k], params.val.query)
          /\ results.val[k] # ToLowercase(results.val[k])

\* C10: the search with print_nonmatch off and the search with it on have
\* disjoint key sets whose union is 1..N, N the number of lines, each key
\* mapped to the original line; an empty query selects every line in the
\* normal mode and none in the inverted mode.
C10_ModesPartition ==
    pc = "Searched" =>
        LET p == params.val
            L == Lines(file.val)
            normal == search([p EXCEPT !.print_nonmatch = FALSE], file.val)
            inverted == search([p EXCEPT !.print_nonmatch = TRUE], file.val)
        IN  /\ results.val = (IF p.print_nonmatch THEN inverted ELSE normal)
            /\ DOMAIN normal \cap DOMAIN inverted = {}
            /\ DOMAIN normal \cup DOMAIN inverted = 1..Len(L)
            /\ \A k \in DOMAIN normal : normal[k] = L[k]
            /\ \A k \in DOMAIN inverted : inverted[k] = L[k]
            /\ p.query = <<>> => (DOMAIN normal = 1..Len(L) /\ DOMAIN inverted = {})

\* A text of which each mode selects at least one line.
C10_Witness ==
    /\ pc = "Searched"
    /\ Len(Lines(file.val)) >= 2
    /\ DOMAIN results.val # {}
    /\ DOMAIN results.val # 1..Len(Lines(file.val))

----------------------------------------------------------------------------
(* Properties of the invocation, checked under Spec *)

\* The n-th smallest key of map m.
NthKey(m, n) == CHOOSE k \in DOMAIN m : Cardinality({j \in DOMAIN m : j < k}) = n - 1

\* The text of one printed result: the number and ": " when numbers are
\* asked for, the line, a line feed.
ResultText(p, m, k) ==
    IF p.print_line_no
    THEN Decimal(k) \o <<":", " ">> \o m[k] \o <<"\n">>
    ELSE m[k] \o <<"\n">>

\* A step of run that writes to standard output writes the result with the
\* next smallest line number, none having been written twice or skipped.
PrintsNextSmallest ==
    (pc = "Searched" /\ stdout' # stdout) =>
        /\ idx < Cardinality(DOMAIN results.val)
        /\ idx' = idx + 1
        /\ stdout' = stdout \o ResultText(params.val, results.val,
                                          NthKey(results.val, idx + 1))

\* When run has returned, every result has been written.
PrintedAll ==
    pc \in {"Printed", "Done"} => idx = Cardinality(DOMAIN results.val)

\* C6: run prints the results in strictly ascending line-number order,
\* whatever order the map yields its keys in, each exactly once: the line
\* text and a line feed, preceded by "<number>: " iff print_line_no is set.
C6_AscendingOutput == [][PrintsNextSmallest]_vars /\ []PrintedAll

\* Two or more numbered results have been printed.
C6_Witness ==
    /\ pc = "Printed"
    /\ params.val.print_line_no
    /\ Cardinality(DOMAIN results.val) >= 2

RECURSIVE MatchOutput(_, _, _)
\* The results of m with the n smallest line numbers, as printed in order.
MatchOutput(p, m, n) ==
    IF n = 0 THEN <<>>
    ELSE MatchOutput(p, m, n - 1) \o ResultText(p, m, NthKey(m, n))

\* C7: over a whole invocation standard output holds one line per match and
\* nothing else: nothing when the invocation ends in an error, nothing when
\* there is no match.
C7_StdoutOnlyMatches ==
    /\ pc = "Error" => stdout = <<>>
    /\ pc = "Done" =>
          stdout = MatchOutput(params.val, results.val, Cardinality(DOMAIN results.val))

Terminated == pc \in {"Done", "Error"}

Stage(p) ==
    CASE p = "Start" -> 0
      [] p = "Parsed" -> 1
      [] p = "Read" -> 2
      [] p = "Searched" -> 3
      [] p = "Printed" -> 4
      [] p = "Done" -> 5

\* The exit status and the error stream agree with what failed.
ExitOutcome ==
    /\ pc = "Done" =>
          /\ exit_code = <<0>>
          /\ params.tag = "Ok" /\ file.tag = "Ok"
    /\ pc = "Error" =>
          /\ exit_code = <<1>>
          /\ stderr # <<>>
          /\ params.tag = "Err" \/ file.tag = "Err"
    /\ ~Terminated => exit_code = <<>>
    /\ (params.tag = "Ok" /\ file.tag = "Ok") => pc # "Error"

\* Every step advances the invocation: to a later stage, to a terminal
\* position, or one iteration further in the print loop, whose index never
\* exceeds the number of results.
Advances ==
    \/ Terminated'
    \/ ~Terminated /\ Stage(pc') > Stage(pc)
    \/ /\ pc' = pc
       /\ sort_results' = sort_results
       /\ idx' = idx + 1
       /\ idx' <= Len(sort_results)

\* A position that is not terminal has a next step.  MainParse and Search
\* have no guard but their position.
NeverStuck ==
    \/ Terminated
    \/ pc \in {"Start", "Read"}
    \/ ENABLED (ReadFile \/ PrintLine \/ PrintDone \/ MainReturn)

PipelineStep ==
    \/ /\ pc' # "Error"
       /\ pc # "Error"
       /\ \/ Stage(pc') = Stage(pc) + 1
          \/ pc = "Searched" /\ pc' = "Searched" /\ idx' = idx + 1
    \/ /\ pc' = "Error"
       /\ \/ pc = "Start" /\ params'.tag = "Err" /\ file' = NotCalled
          \/ pc = "Parsed" /\ file'.tag = "Err" /\ stdout' = stdout
       /\ results' = NotCalled

\* What each stage has and has not done.
StageData ==
    /\ (params.tag = "Ok") <=> (pc \notin {"Start"} /\ ~(pc = "Error" /\ file = NotCalled))
    /\ (file.tag = "Ok") <=> (pc \in {"Read", "Searched", "Printed", "Done"})
    /\ (results # NotCalled) <=> (pc \in {"Searched", "Printed", "Done"})
    /\ params.tag = "Err" => (pc = "Error" /\ file = NotCalled)
    /\ file.tag = "Err" => (pc = "Error" /\ results = NotCalled)
    /\ Terminated => ~ENABLED Next

\* C9: the invocation is the linear pipeline Start, Parsed, Read, Searched,
\* Printed, Done with no stage skipped or repeated; Error is entered only
\* from a parse failure or a read failure; after a parse failure the file is
\* never read, after a read failure search is never called and run writes no
\* match line; nothing happens after Done or Error.
C9_LinearPipeline == [][PipelineStep]_vars /\ []StageData

\* The read failed after a successful parse.
C9_Witness ==
    /\ pc = "Error"
    /\ params.tag = "Ok"
    /\ file.tag = "Err"
    /\ results = NotCalled

====
